---- MODULE Spec2Model ----
(***************************************************************************)
(* CCDMultiTrack (ADApp/ADSrc/CCDMultiTrack.cpp): validation of the        *)
(* multi-track read-out definition of a CCD.                               *)
(*                                                                         *)
(* The user writes three int32 arrays (track start, track end, track       *)
(* binning).  validate() coerces them into a list of regions               *)
(* {offset, size, binning} and records one message per adjustment;         *)
(* _validate() publishes the adjusted arrays through the port driver;      *)
(* writeInt32Array() prints the messages at ASYN_TRACE_WARNING.            *)
(*                                                                         *)
(* Integers: offset and size are size_t, mMaxSizeY is size_t, the user     *)
(* values and binning are int.  Every (int) cast and every size_t          *)
(* subtraction in validate() is exact as long as mMaxSizeY and the user    *)
(* values fit an int, which is the range modelled here, so the arithmetic  *)
(* is written over the integers.                                           *)
(* The ASYN_TRACEIO_DEVICE traces (the TRACE macro) are not part of the    *)
(* state; only the ASYN_TRACE_WARNING prints are kept.                     *)
(***************************************************************************)
EXTENDS Integers, Sequences, FiniteSets, TLC

VARIABLES mMaxSizeY, mUserStart, mUserEnd, mUserBin, mValid, mMessages, out

vars == <<mMaxSizeY, mUserStart, mUserEnd, mUserBin, mValid, mMessages, out>>

(***************************************************************************)
(* Bounds of the model.                                                    *)
(***************************************************************************)
\* SpecValidate: the inputs of one validation pass
MaxTracks == 2
MaxPos == 3
MaxBin == 3
MaxExtent == 4
\* Spec: the arguments of the calls made on the object
MaxElements == 2
MaxValue == 1
MaxSetSize == 2

\* mMaxSizeY as the constructor leaves it
DefaultMaxSizeY == 5000

\* Parameter strings
CCDMultiTrackStartString == "CCD_MULTI_TRACK_START"
CCDMultiTrackEndString == "CCD_MULTI_TRACK_END"
CCDMultiTrackBinString == "CCD_MULTI_TRACK_BIN"
\* a pasynUser->reason that is none of the three parameters
OtherReason == "OTHER"

SeqsUpTo(S, n) == UNION {[1..k -> S] : k \in 0..n}

(***************************************************************************)
(* addMessage: the formatted text is kept as the format and its arguments  *)
(* (no format of validate() reaches the 120 characters of the buffer).     *)
(***************************************************************************)
addMessage(fmt, args) == [fmt |-> fmt, args |-> args]

MsgMoreTracks == "More tracks (%d) than Y pixels"
MsgStartNegative == "Track %d start (%d) less than 0"
MsgStartBeforePrev == "Track %d start (%d) before end of previous (%d)"
MsgStartBeyond == "Track %d start (%d) beyond last row (%d)"
MsgStartNoSpace == "Track %d start (%d) leaves no space for %d more track(s)"
MsgEndNegative == "Track %d end (%d) less than 0"
MsgEndBeforeStart == "Track %d end (%d) less than start (%d)"
MsgEndBeyond == "Track %d end (%d) beyond last row (%d)"
MsgEndNoSpace == "Track %d end (%d) leaves no space for %d more track(s)"
MsgBinLessThanOne == "Track %d binning (%d) is less than 1"
MsgBinTooLarge == "Track %d binning (%d) is less than track size (%zd)"
MsgBinNotDivisor == "Track %d binning (%d) does not divide size (%zd)"

(***************************************************************************)
(* validate(), lines 140-146: the message list is emptied, the number of   *)
(* regions is the number of start values, at most mMaxSizeY.               *)
(***************************************************************************)
ClearMessagesKeep(messages) == messages
ClearMessages(messages) == <<>>

CountNoClamp(userStart, maxSizeY) ==
    [numRegions |-> Len(userStart), msgs |-> <<>>]
Count(userStart, maxSizeY) ==
    IF Len(userStart) > maxSizeY
    THEN [numRegions |-> maxSizeY,
          msgs |-> <<addMessage(MsgMoreTracks, <<Len(userStart)>>)>>]
    ELSE [numRegions |-> Len(userStart), msgs |-> <<>>]

(***************************************************************************)
(* validate(), lines 151-170: the offset of region i (0-based); start is   *)
(* mUserStart[i], prevEnd the end of the previous adjusted region.         *)
(***************************************************************************)
Offset(i, start, prevEnd, numRegions, maxSizeY) ==
    IF start < 0
    THEN [offset |-> 0,
          msgs |-> <<addMessage(MsgStartNegative, <<i + 1, start>>)>>]
    ELSE IF i > 0 /\ start < prevEnd
    THEN [offset |-> prevEnd,
          msgs |-> <<addMessage(MsgStartBeforePrev, <<i + 1, start, prevEnd>>)>>]
    ELSE IF start > maxSizeY - 1
    THEN [offset |-> maxSizeY - (numRegions - i),
          msgs |-> <<addMessage(MsgStartBeyond, <<i + 1, start, maxSizeY - 1>>)>>]
    ELSE IF start > maxSizeY - (numRegions - i)
    THEN [offset |-> maxSizeY - (numRegions - i),
          msgs |-> <<addMessage(MsgStartNoSpace, <<i + 1, start, numRegions - i - 1>>)>>]
    ELSE [offset |-> start, msgs |-> <<>>]

(***************************************************************************)
(* validate(), lines 172-195: the size of region i.                        *)
(***************************************************************************)
SizeNoEndClamp(i, start, userEnd, offset, numRegions, maxSizeY) ==
    IF i >= Len(userEnd)
    THEN [size |-> 1, msgs |-> <<>>]
    ELSE LET end == userEnd[i + 1] IN
         IF end < 0
         THEN [size |-> 1,
               msgs |-> <<addMessage(MsgEndNegative, <<i + 1, end>>)>>]
         ELSE IF end < start
         THEN [size |-> 1,
               msgs |-> <<addMessage(MsgEndBeforeStart, <<i + 1, end, start>>)>>]
         ELSE IF end < offset
         THEN [size |-> 1, msgs |-> <<>>]
         ELSE IF end > maxSizeY - 1
         THEN [size |-> end + 1 - offset,
               msgs |-> <<addMessage(MsgEndBeyond, <<i + 1, end, maxSizeY - 1>>)>>]
         ELSE IF end > maxSizeY - (numRegions - i)
         THEN [size |-> maxSizeY - offset - (numRegions - i - 1),
               msgs |-> <<addMessage(MsgEndNoSpace, <<i + 1, end, numRegions - i - 1>>)>>]
         ELSE [size |-> end + 1 - offset, msgs |-> <<>>]
SizeNoRoom(i, start, userEnd, offset, numRegions, maxSizeY) ==
    IF i >= Len(userEnd)
    THEN [size |-> 1, msgs |-> <<>>]
    ELSE LET end == userEnd[i + 1] IN
         IF end < 0
         THEN [size |-> 1,
               msgs |-> <<addMessage(MsgEndNegative, <<i + 1, end>>)>>]
         ELSE IF end < start
         THEN [size |-> 1,
               msgs |-> <<addMessage(MsgEndBeforeStart, <<i + 1, end, start>>)>>]
         ELSE IF end < offset
         THEN [size |-> 1, msgs |-> <<>>]
         ELSE IF end > maxSizeY - 1
         THEN [size |-> maxSizeY - offset,
               msgs |-> <<addMessage(MsgEndBeyond, <<i + 1, end, maxSizeY - 1>>)>>]
         ELSE IF end > maxSizeY - (numRegions - i)
         THEN [size |-> maxSizeY - offset,
               msgs |-> <<addMessage(MsgEndNoSpace, <<i + 1, end, numRegions - i - 1>>)>>]
         ELSE [size |-> end + 1 - offset, msgs |-> <<>>]
Size(i, start, userEnd, offset, numRegions, maxSizeY) ==
    IF i >= Len(userEnd)
    THEN [size |-> 1, msgs |-> <<>>]
    ELSE LET end == userEnd[i + 1] IN
         IF end < 0
         THEN [size |-> 1,
               msgs |-> <<addMessage(MsgEndNegative, <<i + 1, end>>)>>]
         ELSE IF end < start
         THEN [size |-> 1,
               msgs |-> <<addMessage(MsgEndBeforeStart, <<i + 1, end, start>>)>>]
         ELSE IF end < offset
         THEN [size |-> 1, msgs |-> <<>>]
         ELSE IF end > maxSizeY - 1
         THEN [size |-> maxSizeY - offset - (numRegions - i - 1),
               msgs |-> <<addMessage(MsgEndBeyond, <<i + 1, end, maxSizeY - 1>>)>>]
         ELSE IF end > maxSizeY - (numRegions - i)
         THEN [size |-> maxSizeY - offset - (numRegions - i - 1),
               msgs |-> <<addMessage(MsgEndNoSpace, <<i + 1, end, numRegions - i - 1>>)>>]
         ELSE [size |-> end + 1 - offset, msgs |-> <<>>]

(***************************************************************************)
(* validate(), lines 197-214: the binning of region i, and its size cut    *)
(* down to a multiple of the binning.  The binning messages print i, the   *)
(* other messages i+1.                                                     *)
(***************************************************************************)
BinningNoTruncate(i, userBin, size) ==
    IF i >= Len(userBin)
    THEN [size |-> size, binning |-> size, msgs |-> <<>>]
    ELSE LET bin == userBin[i + 1] IN
         IF bin < 1
         THEN [size |-> size, binning |-> 1,
               msgs |-> <<addMessage(MsgBinLessThanOne, <<i, bin>>)>>]
         ELSE IF bin > size
         THEN [size |-> size, binning |-> size,
               msgs |-> <<addMessage(MsgBinTooLarge, <<i, bin, size>>)>>]
         ELSE IF size % bin # 0
         THEN [size |-> size, binning |-> bin,
               msgs |-> <<addMessage(MsgBinNotDivisor, <<i, bin, size>>)>>]
         ELSE [size |-> size, binning |-> bin, msgs |-> <<>>]
BinningSilentTruncate(i, userBin, size) ==
    IF i >= Len(userBin)
    THEN [size |-> size, binning |-> size, msgs |-> <<>>]
    ELSE LET bin == userBin[i + 1] IN
         IF bin < 1
         THEN [size |-> size, binning |-> 1,
               msgs |-> <<addMessage(MsgBinLessThanOne, <<i, bin>>)>>]
         ELSE IF bin > size
         THEN [size |-> size, binning |-> size,
               msgs |-> <<addMessage(MsgBinTooLarge, <<i, bin, size>>)>>]
         ELSE [size |-> (size \div bin) * bin, binning |-> bin, msgs |-> <<>>]
Binning(i, userBin, size) ==
    IF i >= Len(userBin)
    THEN [size |-> size, binning |-> size, msgs |-> <<>>]
    ELSE LET bin == userBin[i + 1] IN
         IF bin < 1
         THEN [size |-> size, binning |-> 1,
               msgs |-> <<addMessage(MsgBinLessThanOne, <<i, bin>>)>>]
         ELSE IF bin > size
         THEN [size |-> size, binning |-> size,
               msgs |-> <<addMessage(MsgBinTooLarge, <<i, bin, size>>)>>]
         ELSE IF size % bin # 0
         THEN [size |-> (size \div bin) * bin, binning |-> bin,
               msgs |-> <<addMessage(MsgBinNotDivisor, <<i, bin, size>>)>>]
         ELSE [size |-> size, binning |-> bin, msgs |-> <<>>]

(***************************************************************************)
(* validate(), lines 149-218: the loop over the regions, from region i on; *)
(* regions holds regions[0..i-1] and messages what was recorded so far.    *)
(***************************************************************************)
RECURSIVE Regions(_, _, _, _, _, _, _, _)
Regions(i, numRegions, regions, messages, userStart, userEnd, userBin, maxSizeY) ==
    IF i >= numRegions
    THEN [regions |-> regions, messages |-> messages]
    ELSE LET prevEnd == IF i = 0 THEN 0
                        ELSE regions[i].offset + regions[i].size
             start == userStart[i + 1]
             o == Offset(i, start, prevEnd, numRegions, maxSizeY)
             s == Size(i, start, userEnd, o.offset, numRegions, maxSizeY)
             b == Binning(i, userBin, s.size)
             region == [offset |-> o.offset, size |-> b.size, binning |-> b.binning]
         IN  Regions(i + 1, numRegions, Append(regions, region),
                     messages \o o.msgs \o s.msgs \o b.msgs,
                     userStart, userEnd, userBin, maxSizeY)

(***************************************************************************)
(* validate(): mValid and mMessages after the pass.                        *)
(***************************************************************************)
validate(messages, userStart, userEnd, userBin, maxSizeY) ==
    LET c == Count(userStart, maxSizeY)
    IN  Regions(0, c.numRegions, <<>>, ClearMessages(messages) \o c.msgs,
                userStart, userEnd, userBin, maxSizeY)

(***************************************************************************)
(* _validate(), lines 106-120: the three arrays written back through       *)
(* doCallbacksInt32Array, in the order of the calls.                       *)
(***************************************************************************)
validStart(valid) == [i \in 1..Len(valid) |-> valid[i].offset]
validEnd(valid) == [i \in 1..Len(valid) |-> valid[i].offset + valid[i].size - 1]
validBin(valid) == [i \in 1..Len(valid) |-> valid[i].binning]

doCallbacks(valid) ==
    << [reason |-> CCDMultiTrackStartString, value |-> validStart(valid)],
       [reason |-> CCDMultiTrackEndString, value |-> validEnd(valid)],
       [reason |-> CCDMultiTrackBinString, value |-> validBin(valid)] >>

(***************************************************************************)
(* writeInt32Array(), lines 90-94: the ASYN_TRACE_WARNING prints.          *)
(***************************************************************************)
Warnings(messages) ==
    [m \in 1..Len(messages) |-> [fmt |-> "CCDMultiTrack: %s\n", args |-> <<messages[m]>>]]

(***************************************************************************)
(* The object after construction: no user array, nothing validated.        *)
(***************************************************************************)
NoCall ==
    [call |-> "none", function |-> "none", status |-> "none",
     published |-> <<>>, warnings |-> <<>>]

Init ==
    /\ mMaxSizeY = DefaultMaxSizeY
    /\ mUserStart = <<>>
    /\ mUserEnd = <<>>
    /\ mUserBin = <<>>
    /\ mValid = <<>>
    /\ mMessages = <<>>
    /\ out = NoCall

(***************************************************************************)
(* setMaxSize(maxSizeY)                                                    *)
(***************************************************************************)
setMaxSize(maxSizeY) ==
    LET v == validate(mMessages, mUserStart, mUserEnd, mUserBin, maxSizeY)
    IN  /\ mMaxSizeY' = maxSizeY
        /\ mValid' = v.regions
        /\ mMessages' = v.messages
        /\ UNCHANGED <<mUserStart, mUserEnd, mUserBin>>
        /\ out' = [call |-> "setMaxSize", function |-> "none", status |-> "none",
                   published |-> doCallbacks(v.regions), warnings |-> <<>>]

(***************************************************************************)
(* writeInt32Array(pasynUser, value, nElements); function is               *)
(* pasynUser->reason and valueArray the nElements values.                  *)
(***************************************************************************)
ArrayEqualNever(valueArray, userArray) == FALSE
ArrayEqual(valueArray, userArray) == valueArray = userArray

UserArray(function) ==
    IF function = CCDMultiTrackStartString THEN mUserStart
    ELSE IF function = CCDMultiTrackEndString THEN mUserEnd
    ELSE mUserBin

writeInt32Array(function, valueArray) ==
    IF function \notin {CCDMultiTrackStartString, CCDMultiTrackEndString,
                        CCDMultiTrackBinString}
    THEN /\ UNCHANGED <<mMaxSizeY, mUserStart, mUserEnd, mUserBin, mValid, mMessages>>
         /\ out' = [call |-> "writeInt32Array", function |-> function,
                    status |-> "asynError", published |-> <<>>, warnings |-> <<>>]
    ELSE IF ArrayEqual(valueArray, UserArray(function))
    THEN /\ UNCHANGED <<mMaxSizeY, mUserStart, mUserEnd, mUserBin, mValid, mMessages>>
         /\ out' = [call |-> "writeInt32Array", function |-> function,
                    status |-> "asynSuccess", published |-> <<>>, warnings |-> <<>>]
    ELSE LET newStart == IF function = CCDMultiTrackStartString
                         THEN valueArray ELSE mUserStart
             newEnd == IF function = CCDMultiTrackEndString
                       THEN valueArray ELSE mUserEnd
             newBin == IF function = CCDMultiTrackBinString
                       THEN valueArray ELSE mUserBin
             v == validate(mMessages, newStart, newEnd, newBin, mMaxSizeY)
         IN  /\ mUserStart' = newStart
             /\ mUserEnd' = newEnd
             /\ mUserBin' = newBin
             /\ mValid' = v.regions
             /\ mMessages' = v.messages
             /\ UNCHANGED mMaxSizeY
             /\ out' = [call |-> "writeInt32Array", function |-> function,
                        status |-> "asynSuccess",
                        published |-> doCallbacks(v.regions),
                        warnings |-> Warnings(v.messages)]

Reasons ==
    {CCDMultiTrackStartString, CCDMultiTrackEndString, CCDMultiTrackBinString,
     OtherReason}
Arrays == SeqsUpTo(0..MaxValue, MaxElements)

Next ==
    \/ \E maxSizeY \in 0..MaxSetSize : setMaxSize(maxSizeY)
    \/ \E function \in Reasons, valueArray \in Arrays :
          writeInt32Array(function, valueArray)

Spec == Init /\ [][Next]_vars

(***************************************************************************)
(* One validation pass on arbitrary inputs, then a second pass on the      *)
(* arrays the first one published.                                         *)
(***************************************************************************)
InitValidate ==
    /\ mMaxSizeY \in 0..MaxExtent
    /\ mUserStart \in SeqsUpTo(-1..MaxPos, MaxTracks)
    /\ mUserEnd \in SeqsUpTo(-1..MaxPos, MaxTracks)
    /\ mUserBin \in SeqsUpTo(0..MaxBin, MaxTracks)
    /\ mValid = <<>>
    /\ mMessages = <<>>
    /\ out = NoCall

\* _validate(): validate() and the write-back
Validate ==
    /\ out.call = "none"
    /\ LET v == validate(mMessages, mUserStart, mUserEnd, mUserBin, mMaxSizeY)
       IN  /\ mValid' = v.regions
           /\ mMessages' = v.messages
           /\ out' = [call |-> "_validate", function |-> "none", status |-> "none",
                      published |-> doCallbacks(v.regions), warnings |-> <<>>]
    /\ UNCHANGED <<mMaxSizeY, mUserStart, mUserEnd, mUserBin>>

\* the published arrays taken as the user arrays, and _validate() again
Revalidate ==
    /\ out.call = "_validate"
    /\ LET newStart == out.published[1].value
           newEnd == out.published[2].value
           newBin == out.published[3].value
           v == validate(mMessages, newStart, newEnd, newBin, mMaxSizeY)
       IN  /\ mUserStart' = newStart
           /\ mUserEnd' = newEnd
           /\ mUserBin' = newBin
           /\ mValid' = v.regions
           /\ mMessages' = v.messages
           /\ out' = [call |-> "revalidate", function |-> "none", status |-> "none",
                      published |-> doCallbacks(v.regions), warnings |-> <<>>]
    /\ UNCHANGED mMaxSizeY

NextValidate == Validate \/ Revalidate

SpecValidate == InitValidate /\ [][NextValidate]_vars

(***************************************************************************)
(* Properties of one validation pass (SpecValidate).                       *)
(***************************************************************************)
Validated == out.call # "none"

HasMessage(fmt) == \E m \in 1..Len(mMessages) : mMessages[m].fmt = fmt

Min(a, b) == IF a < b THEN a ELSE b

\* C1: no region starts before the end of the previous adjusted region:
\* for every i > 0, region[i].offset >= region[i-1].offset + region[i-1].size.
C1_Ordering ==
    Validated =>
        \A i \in 2..Len(mValid) :
            mValid[i].offset >= mValid[i - 1].offset + mValid[i - 1].size

\* C2: validating the arrays a pass published (start = offset,
\* end = offset + size - 1, bin = binning) with the same mMaxSizeY gives the
\* same regions and no message.
C2_Idempotent ==
    [][out'.call = "revalidate" => mValid' = mValid /\ mMessages' = <<>>]_vars

\* C3: every region has offset >= 0, size >= 1 and offset + size <= mMaxSizeY.
C3_Bounds ==
    Validated =>
        \A i \in 1..Len(mValid) :
            /\ mValid[i].offset >= 0
            /\ mValid[i].size >= 1
            /\ mValid[i].offset + mValid[i].size <= mMaxSizeY

\* a pass that clamped a start to 0, a start to mMaxSizeY - remaining, and an
\* end to the last row available
C3_Witness ==
    /\ out.call = "_validate"
    /\ Len(mValid) = 2
    /\ HasMessage(MsgStartNegative)
    /\ HasMessage(MsgStartNoSpace) \/ HasMessage(MsgStartBeyond)
    /\ HasMessage(MsgEndBeyond)
    /\ \E i \in 1..Len(mValid) : mValid[i].size > 1

\* C4: every region has 1 <= binning <= size and size % binning = 0.
C4_Binning ==
    Validated =>
        \A i \in 1..Len(mValid) :
            /\ 1 <= mValid[i].binning
            /\ mValid[i].binning <= mValid[i].size
            /\ mValid[i].size % mValid[i].binning = 0

\* a pass with a bin that does not divide the size, and a bin below 1 or
\* above the size
C4_Witness ==
    /\ out.call = "_validate"
    /\ Len(mValid) = 2
    /\ Len(mUserBin) = 2
    /\ HasMessage(MsgBinNotDivisor)
    /\ HasMessage(MsgBinLessThanOne) \/ HasMessage(MsgBinTooLarge)

\* C8: a pass without message made no correction: one region per start
\* value, offset = userStart[i], end = userEnd[i] when supplied (size 1
\* otherwise), binning = userBin[i] when supplied (binning = size otherwise).
C8_NoMessageNoCorrection ==
    (Validated /\ mMessages = <<>>) =>
        /\ Len(mValid) = Len(mUserStart)
        /\ \A i \in 1..Len(mValid) :
              /\ mValid[i].offset = mUserStart[i]
              /\ IF i <= Len(mUserEnd)
                 THEN mValid[i].offset + mValid[i].size - 1 = mUserEnd[i]
                 ELSE mValid[i].size = 1
              /\ IF i <= Len(mUserBin)
                 THEN mValid[i].binning = mUserBin[i]
                 ELSE mValid[i].binning = mValid[i].size

\* a first pass without message on two tracks, one with end and bin supplied
\* and more than one row, the other without
C8_Witness ==
    /\ out.call = "_validate"
    /\ mMessages = <<>>
    /\ Len(mValid) = 2
    /\ Len(mUserEnd) = 1
    /\ Len(mUserBin) = 1
    /\ mValid[1].size > mValid[1].binning

\* C9: the number of regions is min(len(userStart), mMaxSizeY), and the
\* "More tracks" message is there exactly when len(userStart) > mMaxSizeY.
C9_Count ==
    Validated =>
        /\ Len(mValid) = Min(Len(mUserStart), mMaxSizeY)
        /\ HasMessage(MsgMoreTracks) <=> Len(mUserStart) > mMaxSizeY

\* more start values than rows, with end and bin arrays of other lengths
C9_Witness ==
    /\ out.call = "_validate"
    /\ Len(mUserStart) = 2
    /\ mMaxSizeY = 1
    /\ Len(mValid) = 1
    /\ Len(mUserEnd) = 2
    /\ Len(mUserBin) = 0
    /\ HasMessage(MsgMoreTracks)

\* C10: a region of more than one row lies inside the span asked for
\* [userStart[i], userEnd[i]]; a region that starts before userStart[i] has
\* one row; a binning above a supplied userBin[i] is 1.
C10_ClampInward ==
    Validated =>
        \A i \in 1..Len(mValid) :
            /\ (i <= Len(mUserEnd) /\ mValid[i].size > 1) =>
                  /\ mUserStart[i] <= mValid[i].offset
                  /\ mValid[i].offset + mValid[i].size - 1 <= mUserEnd[i]
            /\ mValid[i].offset < mUserStart[i] => mValid[i].size = 1
            /\ (i <= Len(mUserBin) /\ mValid[i].binning > mUserBin[i]) =>
                  mValid[i].binning = 1

\* a start moved down to mMaxSizeY - remaining with its end supplied, next to
\* a region of several rows cut inside its span
C10_Witness ==
    /\ out.call = "_validate"
    /\ Len(mValid) = 2
    /\ Len(mUserEnd) = 2
    /\ mValid[2].offset < mUserStart[2]
    /\ mValid[1].size > 1
    /\ mValid[1].offset + mValid[1].size - 1 < mUserEnd[1]

(***************************************************************************)
(* Properties of the calls made on the object (Spec).                      *)
(***************************************************************************)
\* C5: setMaxSize, and a writeInt32Array whose value differs from the stored
\* array, publish the three validated arrays and print every message of the
\* pass at ASYN_TRACE_WARNING.
C5_EveryMutationForwards ==
    [][ ( \/ \E maxSizeY \in 0..MaxSetSize : setMaxSize(maxSizeY)
          \/ \E function \in Reasons \ {OtherReason}, valueArray \in Arrays :
                /\ valueArray # UserArray(function)
                /\ writeInt32Array(function, valueArray) )
        => /\ out'.published = doCallbacks(mValid')
           /\ out'.warnings = Warnings(mMessages') ]_vars

\* C6: the stored regions and messages are those of validate() on the stored
\* user arrays and mMaxSizeY, whatever calls were made before.
C6_ResultIsValidation ==
    LET v == validate(<<>>, mUserStart, mUserEnd, mUserBin, mMaxSizeY)
    IN  /\ mValid = v.regions
        /\ mMessages = v.messages

\* a rejected write after setMaxSize and after writes that left messages
C6_Witness ==
    /\ out.call = "writeInt32Array"
    /\ out.status = "asynError"
    /\ mMaxSizeY # DefaultMaxSizeY
    /\ mMessages # <<>>
    /\ mUserEnd # <<>>
    /\ mUserBin # <<>>

\* C7: a write of the value already stored for start, end or bin changes
\* nothing, publishes nothing and prints nothing; a write of another value
\* replaces that array only and leaves the other two and mMaxSizeY.
C7_EqualityShortCircuit ==
    [][ \A function \in Reasons \ {OtherReason}, valueArray \in Arrays :
          writeInt32Array(function, valueArray) =>
              IF valueArray = UserArray(function)
              THEN /\ UNCHANGED <<mMaxSizeY, mUserStart, mUserEnd, mUserBin,
                                  mValid, mMessages>>
                   /\ out'.published = <<>>
                   /\ out'.warnings = <<>>
              ELSE /\ mMaxSizeY' = mMaxSizeY
                   /\ mUserStart' = IF function = CCDMultiTrackStartString
                                    THEN valueArray ELSE mUserStart
                   /\ mUserEnd' = IF function = CCDMultiTrackEndString
                                  THEN valueArray ELSE mUserEnd
                   /\ mUserBin' = IF function = CCDMultiTrackBinString
                                  THEN valueArray ELSE mUserBin ]_vars

\* the state after a write of the stored value: accepted, nothing published,
\* with regions and messages from an earlier pass still there
C7_Witness ==
    /\ out.call = "writeInt32Array"
    /\ out.status = "asynSuccess"
    /\ out.published = <<>>
    /\ mValid # <<>>
    /\ mMessages # <<>>

====
